---------------------------- MODULE Spec2Model ----------------------------
(***************************************************************************)
(* A model of governance_toy.py: the preference discovery protocol         *)
(* (search_for_top_preferences / paradox_ask_preferences /                 *)
(* ask_for_preference), the resolution protocol (ask_experts_to_solve /    *)
(* ask_for_solve / check_for_win) and the three strategies that compose    *)
(* them (paradox_solve, technocracy_solve, direct_dem_solve).              *)
(*                                                                         *)
(* Units.  A preference is a float rounded to one decimal: the model holds *)
(* it in tenths (PrefScale).  An expertise and a vote's draw are floats    *)
(* rounded to four decimals: the model holds them in 1/10000 (DrawMax).    *)
(* Every preference of the populations below is a multiple of 0.5, which   *)
(* binary floating point adds without error, so the integer sums of the    *)
(* model order the top-problem log exactly as the float sums do.           *)
(*                                                                         *)
(* Problems are 1..P: problem n is the key 'problem'+str(n).               *)
(***************************************************************************)
EXTENDS Integers, Sequences, FiniteSets, TLC

VARIABLES
    strategy,                   \* the entry point that runs
    population,                 \* what init()'s random draws came to: a recipe
    top_problems_dict,          \* top-10 problem -> its 'solved' flag
    known_preferences,          \* agent -> (revealed problem -> value)
    top_problem_log,            \* problem -> summed revealed values
    hypothesized_top_problems,  \* list of problems
    number_of_steps,            \* size of the running episode
    ep_steps,                   \* 'steps' of paradox_ask_preferences (0 between calls)
    agentid,                    \* next agent to ask
    top_probs_remaining,        \* turns left of the "take top" loop
    steps,                      \* 'steps' of search_for_top_preferences
    contain_percentage,         \* last containment computed
    targets,                    \* ask_experts_to_solve: the list of problems
    start_steps,                \* ask_experts_to_solve: parameter 'steps'
    expertise_cutoff,           \* ask_experts_to_solve: parameter, in 1/10000
    experts,                    \* target problem -> agents at or above the cutoff
    new_steps,                  \* running step total of the resolution call
    total_problems_solved,
    cur,                        \* position of the for loop in targets
    asked_problem,              \* ask_for_solve: the problem of the last attempt
    agents_to_ask,              \* ask_for_solve: the cohort of the last attempt
    agents_succeeded,           \* ask_for_solve: tally of the last attempt
    agents_failed,
    solve_list,                 \* what the last ask_for_solve returned
    attempts,                   \* number of calls of ask_for_solve made
    result,                     \* the list returned, << >> while running
    pc                          \* where the run is

vars == << strategy, population, top_problems_dict, known_preferences,
           top_problem_log, hypothesized_top_problems, number_of_steps,
           ep_steps, agentid, top_probs_remaining, steps, contain_percentage, targets, start_steps,
           expertise_cutoff, experts, new_steps, total_problems_solved, cur,
           asked_problem, agents_to_ask, agents_succeeded, agents_failed,
           solve_list, attempts, result, pc >>

----------------------------------------------------------------------------
(* Program constants. *)

\* create_problems_dict keeps the first 10 shuffled problems as the top set.
TopCount == 10

\* The budget is len(preferences) * 100 steps.
StepFactor == 100

\* 10 + int(.1 * P) entries are taken from the log per episode.
ExtractBase == 10

ExtractDivisor == 10

\* round(x, 1): preferences are held in tenths.
PrefScale == 10

\* round(x, 4): expertise and draws are held in 1/10000; round(random(), 4)
\* ranges over 0 .. 1.0.
DrawMax == 10000

\* The cutoff 0.5 of paradox_solve and technocracy_solve.
HalfCutoff == 5000

\* The cutoff 0 of direct_dem_solve.
ZeroCutoff == 0

\* The outcome codes of ask_experts_to_solve.
Success == 100

Failure == 0

----------------------------------------------------------------------------
(* Bounds of the model. *)

\* The small populations have FewAgents or ManyAgents agents.
FewAgents == 2

ManyAgents == 3

\* The larger problem sets have TopCount + ExtraProblems problems.
ExtraProblems == 2

----------------------------------------------------------------------------
(* Helpers. *)

Max(a, b) == IF a > b THEN a ELSE b

Range(s) == { s[i] : i \in DOMAIN s }

Position(s, x) == CHOOSE i \in DOMAIN s : s[i] = x

RECURSIVE SumOver(_, _)
SumOver(S, f) ==
    IF S = {} THEN 0
    ELSE LET x == CHOOSE y \in S : TRUE
         IN  f[x] + SumOver(S \ {x}, f)

----------------------------------------------------------------------------
(* SET UP: init() and the generators it calls.  The random draws of the    *)
(* generators are inputs: a population is built from a recipe              *)
(*   A, P     numbers of agents and of problems                            *)
(*   shuffle  the order shuffle(problems) left the problems in             *)
(*   prefs    how random.random() split each problem's total               *)
(*   skill    how random.random()**4 came out                              *)
(*   keys     the iteration order of the dicts keyed by problem            *)

Down(P) == [i \in 1..P |-> P + 1 - i]

Up(P) == [i \in 1..P |-> i]

Shuffled(r) == IF r.shuffle = "down" THEN Down(r.P) ELSE Up(r.P)

\* create_problems_dict: the i-th shuffled problem gets the total P + 1 - i,
\* and problem p is the (P + 1 - p)-th of Down, the p-th of Up.
problems_dict(r, p) == IF r.shuffle = "down" THEN p ELSE r.P + 1 - p

\* create_problems_dict: the first TopCount shuffled problems, unsolved.
TopProblems(r) == { Shuffled(r)[i] : i \in 1..TopCount }

\* The top problem with the smallest total.
LastTop(r) == Shuffled(r)[TopCount]

\* assign_preferences: agent a's rounded share of problem p's total, in
\* tenths.  "split": the total is dealt out in halves as evenly as it goes,
\* the odd halves to the last agents.  "starved": agents 1 and 2 hold 0.5 of
\* every problem and the last agent the rest, except for problem LastTop,
\* which the last agent holds alone.
HalfUnits(r, p) == 2 * problems_dict(r, p)

SplitShare(r, a, p) ==
    LET u == HalfUnits(r, p)
    IN  (PrefScale \div 2) *
        ((u \div r.A) + (IF a > r.A - (u % r.A) THEN 1 ELSE 0))

StarvedShare(r, a, p) ==
    LET w == problems_dict(r, p)
    IN  IF p = LastTop(r)
        THEN (IF a = r.A THEN PrefScale * w ELSE 0)
        ELSE IF a = r.A THEN PrefScale * w - PrefScale
             ELSE IF a <= 2 THEN PrefScale \div 2 ELSE 0

\* A random split of twelve problems among three agents, in tenths: row p
\* holds the shares of problem p, which sum to its total p.
ScatteredTable ==
    << << 10, 0, 0 >>,
       << 5, 15, 0 >>,
       << 5, 0, 25 >>,
       << 25, 5, 10 >>,
       << 50, 0, 0 >>,
       << 0, 15, 45 >>,
       << 55, 0, 15 >>,
       << 15, 10, 55 >>,
       << 5, 30, 55 >>,
       << 85, 10, 5 >>,
       << 0, 55, 55 >>,
       << 55, 20, 45 >> >>

ScatteredShare(r, a, p) == ScatteredTable[p][a]

assign_preferences(r, a, p) ==
    CASE r.prefs = "starved" -> StarvedShare(r, a, p)
      [] r.prefs = "scattered" -> ScatteredShare(r, a, p)
      [] OTHER -> SplitShare(r, a, p)

\* assign_expertise: round(random.random()**4, 4), in 1/10000.
\* "none": nobody has any skill.  "lone": agent 1 alone is an expert of
\* every problem.  "pair": agents 1 and 2 sit exactly at the 0.5 cutoff.
\* "mixed": agent 1 sits exactly at the 0.5 cutoff for the even problems
\* only, everybody else has a little skill.
assign_expertise(r, a, p) ==
    CASE r.skill = "none" -> 0
      [] r.skill = "lone" -> IF a = 1 THEN 8000 ELSE 0
      [] r.skill = "pair" -> IF a <= 2 THEN HalfCutoff ELSE 0
      [] OTHER -> IF a = 1 /\ p % 2 = 0 THEN HalfCutoff ELSE 2500

KeyOrder(r) == IF r.keys = "desc" THEN Down(r.P) ELSE Up(r.P)

\* The population never changes after init(): the state holds the recipe
\* it was built from, and the dicts are read off it.

\* agents.keys()
Agents == 1..population.A

\* agents[1]['preferences'].keys(), as a set
Problems == 1..population.P

\* agents[a]['preferences'][p]
Preference(a, p) == assign_preferences(population, a, p)

\* agents[a]['expertise'][p]
Expertise(a, p) == assign_expertise(population, a, p)

\* The iteration order of the dicts keyed by problem.
key_order == KeyOrder(population)

\* len(agents.keys())
NumAgents == population.A

\* len(agents[1]['preferences'])
NumProblems == population.P

\* len(agents[1]['preferences'])*100
StepLimit == NumProblems * StepFactor

\* Python integers are unbounded.  The code only ever compares a step count
\* with StepLimit, so the model stops counting the discovery steps two
\* above it: every comparison the code makes comes out the same.
StepCap == StepLimit + 2

Saturate(n) == IF n > StepCap THEN StepCap ELSE n

----------------------------------------------------------------------------
(* SUPPORT FUNCTIONS of discovery. *)

\* The first key of keys, in iteration order, whose value is the largest:
\* what a scan with a strict '>' and what max(dict, key=dict.get) return.
FirstMax(keys, val, order) ==
    CHOOSE k \in keys :
        \A j \in keys :
            \/ val[j] < val[k]
            \/ val[j] = val[k] /\ Position(order, k) <= Position(order, j)

\* An ask that reveals the first unknown preference in iteration order.
ask_for_first_preference(agent_to_ask, known, order) ==
    LET unknown == Problems \ DOMAIN known[agent_to_ask]
    IN  IF unknown = {} THEN known
        ELSE LET first == order[CHOOSE i \in 1..Len(order) :
                                  /\ order[i] \in unknown
                                  /\ \A j \in 1..(i - 1) : order[j] \notin unknown]
             IN  [known EXCEPT ![agent_to_ask] =
                    @ @@ (first :> Preference(agent_to_ask, first))]

\* ask_for_preference: the asked agent's largest preference among those
\* not yet revealed is added to what is known of it; nothing changes when
\* everything is revealed already.
ask_for_preference(agent_to_ask, known, order) ==
    LET unknown == Problems \ DOMAIN known[agent_to_ask]
        prefs   == [p \in unknown |-> Preference(agent_to_ask, p)]
    IN  IF unknown = {} THEN known
        ELSE LET next_top == FirstMax(unknown, prefs, order)
             IN  [known EXCEPT ![agent_to_ask] = @ @@ (next_top :> prefs[next_top])]

\* list1_contain_list2: int((len(list2) - differences) / float(len(list2)) * 100)
list1_contain_list2(list1, list2) ==
    LET differences == Cardinality({ e \in list2 : e \notin Range(list1) })
    IN  ((Cardinality(list2) - differences) * 100) \div Cardinality(list2)

\* paradox_ask_preferences, "add up known preferences": every revealed value
\* of every agent is added to the problem's entry of the log, which is
\* created when missing.
RevealedBy(known, p) == { a \in DOMAIN known : p \in DOMAIN known[a] }

RevealedTotal(known, p) ==
    SumOver(RevealedBy(known, p), [a \in RevealedBy(known, p) |-> known[a][p]])

Revealed(known) == UNION { DOMAIN known[a] : a \in DOMAIN known }

AddUpKnown(log, known) ==
    [p \in DOMAIN log \cup Revealed(known) |->
        (IF p \in DOMAIN log THEN log[p] ELSE 0) + RevealedTotal(known, p)]

\* 10 + int(.1*len(agents[1]['preferences']))
TopProbsToTake == ExtractBase + (NumProblems \div ExtractDivisor)

\* An append without the 'not in' test.
AppendTopUnchecked(hyp, top_prob) == Append(hyp, top_prob)

\* One turn of the "take top" loop: the append to the hypothesized list.
AppendTop(hyp, top_prob) ==
    IF top_prob \notin Range(hyp) THEN Append(hyp, top_prob) ELSE hyp

\* One turn of the "take top" loop: del top_problem_log[top_prob]
DeleteKey(log, top_prob) == [q \in DOMAIN log \ {top_prob} |-> log[q]]

\* A loop that takes one turn too many: 'while top_probs_remaining >= 0'.
TakingTopOnceMore(remaining, log) == remaining >= 0 /\ DOMAIN log # {}

\* The "take top" loop goes on: 'while top_probs_remaining > 0' and no break.
TakingTop(remaining, log) == remaining > 0 /\ DOMAIN log # {}

\* A halving without the '+1'.
SearchStepsHalved(n) == n \div 2

\* search_for_top_preferences: int(number_of_agents*.5)+1
SearchSteps(n) == (n \div 2) + 1

\* A search that settles for nine of the ten.
SearchAgainBelowNinety(percentage) == percentage < 90

\* The 'if contain_percentage < 100 ... elif contain_percentage == 100'.
SearchAgain(percentage) == percentage < 100

----------------------------------------------------------------------------
(* SUPPORT FUNCTIONS of resolution. *)

\* An ask_for_solve that never sets a flag.
MarkSolvedNever(top, p, solved) == top

\* A win check that stops at the first solved problem.
check_for_win_any(top) == \E p \in DOMAIN top : top[p]

\* check_for_win
check_for_win(top) == \A p \in DOMAIN top : top[p]

\* A guard that forgets the lower end of the range.
CutoffRejectedAboveOnly(cutoff) == cutoff > DrawMax

\* ask_experts_to_solve: the guard that raises ValueError.
CutoffRejected(cutoff) == cutoff > DrawMax \/ cutoff < 0

\* Experts strictly above the cutoff.
FindExpertsAbove(problems, cutoff) ==
    [p \in Range(problems) |-> { a \in Agents : Expertise(a, p) > cutoff }]

\* ask_experts_to_solve: experts[problem] of every target.
FindExperts(problems, cutoff) ==
    [p \in Range(problems) |-> { a \in Agents : Expertise(a, p) >= cutoff }]

\* The agents asked: the experts when there are any, else agents.keys().
AgentsToAsk(exps, p) == IF exps[p] # {} THEN exps[p] ELSE Agents

\* round(random.random(), 4) < expertise decides each vote.  The draws 0 and
\* 1.0 realise both outcomes wherever both are possible.
DrawSamples == {0, DrawMax}

VoteSucceeds(draw, skill) == draw < skill

\* A tally that lets a tie pass.
MajorityOrTie(succeeded, failed) == succeeded >= failed

\* ask_for_solve: agents_succeeded > agents_failed
Majority(succeeded, failed) == succeeded > failed

\* ask_for_solve: the dict after an attempt that succeeded or not.
MarkSolved(top, p, solved) ==
    IF solved /\ p \in DOMAIN top THEN [top EXCEPT ![p] = TRUE] ELSE top

\* ask_for_solve: what it returns: 100, [True, ...] or [False, ...].
SolveList(solved, won) ==
    IF won THEN "100" ELSE IF solved THEN "True" ELSE "False"

\* A for loop that moves on after every attempt.
NextTargetAnyway(position, solved) == position + 1

\* 'while solved == False' inside 'for problem in ...': the position in the
\* list after an attempt.
NextTarget(position, solved) == IF solved THEN position + 1 ELSE position

\* No budget check at all.
OverBudgetNever(n) == FALSE

\* A budget check that is one step late.
OverBudgetLate(n) == n > StepLimit + 1

\* ask_experts_to_solve: new_steps > len(agents[1]['preferences'])*100
OverBudget(n) == n > StepLimit

\* The sentinel [-1].
BudgetExceeded == -1

----------------------------------------------------------------------------
(* The runs of the model: which populations init() builds, and which       *)
(* entry point is called on each.                                          *)

Recipe(A, P, shuffle, prefs, skill, keys) ==
    [A |-> A, P |-> P, shuffle |-> shuffle, prefs |-> prefs,
     skill |-> skill, keys |-> keys]

LargeProblems == TopCount + ExtraProblems

\* The length of a target list that misses some of the top problems.
PartTargets == 2

\* The fewest agents whose first episode, int(A*.5)+1 asks, is over budget.
CrowdAgents(P) == 2 * StepFactor * P

PairRecipe == Recipe(FewAgents, TopCount, "down", "split", "pair", "asc")

IdleRecipe == Recipe(FewAgents, TopCount, "up", "split", "none", "desc")

LoneRecipe == Recipe(ManyAgents, LargeProblems, "up", "split", "lone", "asc")

MixedRecipe == Recipe(FewAgents, LargeProblems, "down", "split", "mixed", "asc")

StarvedRecipe == Recipe(ManyAgents, LargeProblems, "down", "starved", "none", "asc")

CrowdRecipe == Recipe(CrowdAgents(TopCount), TopCount, "down", "split", "none", "asc")

ScatteredRecipe ==
    Recipe(Len(ScatteredTable[1]), Len(ScatteredTable), "down", "scattered",
           "lone", "asc")

\* paradox_solve, technocracy_solve and direct_dem_solve with their cutoffs;
\* technocracy_solve hands every problem to ask_experts_to_solve.
Call(s, r) ==
    [strategy |-> s, recipe |-> r,
     cutoff |-> IF s = "direct" THEN ZeroCutoff ELSE HalfCutoff,
     targets |-> IF s = "technocracy" THEN KeyOrder(r) ELSE << >>,
     start |-> 0]

\* A call of ask_experts_to_solve from outside the three strategies: with a
\* cutoff outside [0, 1], with a list that holds only some of the top
\* problems, or with starting steps that are over the budget already.
BadCutoffs == { -1000, DrawMax + HalfCutoff }

OverdrawnStart(r) == StepFactor * r.P + 1

Resolve(r, cutoff, problems, start) ==
    [strategy |-> "resolve", recipe |-> r, cutoff |-> cutoff,
     targets |-> problems, start |-> start]

Runs ==
    { Call(s, r) : s \in {"paradox", "direct"},
                   r \in {PairRecipe, IdleRecipe, LoneRecipe, StarvedRecipe,
                          CrowdRecipe} }
    \cup { Call("paradox", ScatteredRecipe) }
    \cup { Call("technocracy", r) : r \in {IdleRecipe, LoneRecipe, MixedRecipe} }
    \cup { Resolve(PairRecipe, c, KeyOrder(PairRecipe), 0) : c \in BadCutoffs }
    \cup { Resolve(PairRecipe, HalfCutoff,
                    SubSeq(KeyOrder(PairRecipe), 1, PartTargets), 0) }
    \cup { Resolve(PairRecipe, HalfCutoff, KeyOrder(PairRecipe),
                    OverdrawnStart(PairRecipe)) }

UsesDiscovery(s) == s \in {"paradox", "direct"}

\* The steps handed to ask_experts_to_solve: 'steps' in paradox_solve, the
\* literal 0 in direct_dem_solve.
StepsHandedOn(s, n) == IF s = "paradox" THEN n ELSE 0

----------------------------------------------------------------------------
(* The state after init() and the entry point's first lines. *)

Init ==
    \E run \in Runs :
        LET r == run.recipe IN
        /\ strategy = run.strategy
        /\ population = r
        /\ top_problems_dict = [p \in TopProblems(r) |-> FALSE]
        /\ known_preferences = [a \in 1..r.A |-> << >>]
        /\ top_problem_log = << >>
        /\ hypothesized_top_problems = << >>
        /\ number_of_steps =
              IF UsesDiscovery(run.strategy)
              THEN SearchSteps(Max(r.P, r.A)) ELSE 0
        /\ ep_steps = 0
        /\ agentid = 1
        /\ top_probs_remaining = 0
        /\ steps = 0
        /\ contain_percentage = 0
        /\ targets = run.targets
        /\ start_steps = run.start
        /\ expertise_cutoff = run.cutoff
        /\ experts = << >>
        /\ new_steps = 0
        /\ total_problems_solved = 0
        /\ cur = 0
        /\ asked_problem = 0
        /\ agents_to_ask = {}
        /\ agents_succeeded = 0
        /\ agents_failed = 0
        /\ solve_list = "none"
        /\ attempts = 0
        /\ result = << >>
        /\ pc = IF UsesDiscovery(run.strategy) THEN "ask" ELSE "call_solve"

discovery_vars ==
    << known_preferences, top_problem_log, hypothesized_top_problems,
       number_of_steps, ep_steps, agentid, top_probs_remaining, steps,
       contain_percentage >>

resolution_vars ==
    << top_problems_dict, experts, new_steps, total_problems_solved, cur,
       asked_problem, agents_to_ask, agents_succeeded, agents_failed,
       solve_list, attempts, result >>

call_vars == << targets, start_steps >>

fixed_vars == << strategy, population, expertise_cutoff >>

----------------------------------------------------------------------------
(* Discovery. *)

\* paradox_ask_preferences, one turn of 'while steps < number_of_steps'.
AskPreference ==
    /\ pc = "ask"
    /\ ep_steps < number_of_steps
    /\ known_preferences' =
          ask_for_preference(agentid, known_preferences, key_order)
    /\ ep_steps' = ep_steps + 1
    /\ IF OverBudget(ep_steps')
       THEN /\ pc' = "RuntimeError"
            /\ agentid' = agentid
       ELSE /\ pc' = "ask"
            /\ agentid' = IF agentid + 1 > NumAgents
                          THEN agentid + 1 - NumAgents
                          ELSE agentid + 1
    /\ UNCHANGED << top_problem_log, hypothesized_top_problems,
                    number_of_steps, top_probs_remaining, steps,
                    contain_percentage >>
    /\ UNCHANGED << resolution_vars, call_vars, fixed_vars >>

\* paradox_ask_preferences, after the loop: "add up known preferences".
AddUp ==
    /\ pc = "ask"
    /\ ~(ep_steps < number_of_steps)
    /\ top_problem_log' = AddUpKnown(top_problem_log, known_preferences)
    /\ top_probs_remaining' = TopProbsToTake
    /\ pc' = "take_top"
    /\ UNCHANGED << known_preferences, hypothesized_top_problems,
                    number_of_steps, ep_steps, agentid, steps,
                    contain_percentage >>
    /\ UNCHANGED << resolution_vars, call_vars, fixed_vars >>

\* paradox_ask_preferences, "take top 10 preferred problems": one turn of
\* 'while top_probs_remaining > 0'.
TakeTop ==
    /\ pc = "take_top"
    /\ TakingTop(top_probs_remaining, top_problem_log)
    /\ LET top_prob == FirstMax(DOMAIN top_problem_log, top_problem_log, key_order)
       IN  /\ hypothesized_top_problems' =
                 AppendTop(hypothesized_top_problems, top_prob)
           /\ top_problem_log' = DeleteKey(top_problem_log, top_prob)
    /\ top_probs_remaining' = top_probs_remaining - 1
    /\ pc' = "take_top"
    /\ UNCHANGED << known_preferences, number_of_steps, ep_steps, agentid,
                    steps, contain_percentage >>
    /\ UNCHANGED << resolution_vars, call_vars, fixed_vars >>

\* The return of paradox_ask_preferences, and search_for_top_preferences from
\* there on: the containment, then the recursive call (the next episode) or
\* the return to the strategy, which calls ask_experts_to_solve.
CompareLists ==
    /\ pc = "take_top"
    /\ ~TakingTop(top_probs_remaining, top_problem_log)
    /\ LET total == Saturate(steps + ep_steps)
           percentage == list1_contain_list2(hypothesized_top_problems,
                                             DOMAIN top_problems_dict)
       IN  /\ steps' = total
           /\ contain_percentage' = percentage
           /\ ep_steps' = 0
           /\ IF SearchAgain(percentage)
              THEN /\ number_of_steps' = SearchSteps(number_of_steps)
                   /\ agentid' = 1
                   /\ pc' = "ask"
                   /\ UNCHANGED call_vars
              ELSE /\ targets' = hypothesized_top_problems
                   /\ start_steps' = StepsHandedOn(strategy, total)
                   /\ pc' = "call_solve"
                   /\ UNCHANGED << number_of_steps, agentid >>
    /\ UNCHANGED << known_preferences, top_problem_log,
                    hypothesized_top_problems, top_probs_remaining >>
    /\ UNCHANGED << resolution_vars, fixed_vars >>

----------------------------------------------------------------------------
(* Resolution. *)

\* ask_experts_to_solve up to the for loop: the cutoff check, the experts
\* of every target, the counters.
AskExpertsToSolve ==
    /\ pc = "call_solve"
    /\ IF CutoffRejected(expertise_cutoff)
       THEN /\ pc' = "ValueError"
            /\ UNCHANGED << experts, new_steps, cur, result >>
       ELSE /\ experts' = FindExperts(targets, expertise_cutoff)
            /\ new_steps' = start_steps
            /\ IF targets = << >>
               THEN /\ result' = << Failure, start_steps, 0 >>
                    /\ pc' = "returned"
                    /\ cur' = cur
               ELSE /\ cur' = 1
                    /\ pc' = "solve"
                    /\ result' = result
    /\ UNCHANGED << top_problems_dict, total_problems_solved, asked_problem,
                    agents_to_ask, agents_succeeded, agents_failed,
                    solve_list, attempts >>
    /\ UNCHANGED << discovery_vars, call_vars, fixed_vars >>

\* One turn of 'while solved == False': ask_for_solve on the agents to ask,
\* the step, the budget check, the win check; when the problem is solved the
\* for loop moves on, and returns [0, ...] after the last target.
SolveAttempt ==
    /\ pc = "solve"
    /\ LET problem == targets[cur]
           asked == AgentsToAsk(experts, problem)
       IN  \E draw \in [asked -> DrawSamples] :
           LET succeeded == Cardinality({ a \in asked :
                               VoteSucceeds(draw[a], Expertise(a, problem)) })
               failed == Cardinality(asked) - succeeded
               solved == Majority(succeeded, failed)
               top == MarkSolved(top_problems_dict, problem, solved)
               won == solved /\ check_for_win(top)
               n == new_steps + 1
           IN  /\ asked_problem' = problem
               /\ agents_to_ask' = asked
               /\ agents_succeeded' = succeeded
               /\ agents_failed' = failed
               /\ solve_list' = SolveList(solved, won)
               /\ attempts' = attempts + 1
               /\ top_problems_dict' = top
               /\ new_steps' = n
               /\ IF OverBudget(n)
                  THEN /\ result' = << BudgetExceeded >>
                       /\ pc' = "returned"
                       /\ UNCHANGED << total_problems_solved, cur >>
                  ELSE IF won
                  THEN /\ total_problems_solved' = total_problems_solved + 1
                       /\ result' = << Success, n, total_problems_solved + 1 >>
                       /\ pc' = "returned"
                       /\ cur' = cur
                  ELSE LET solved_so_far == IF solved
                                            THEN total_problems_solved + 1
                                            ELSE total_problems_solved
                       IN  /\ total_problems_solved' = solved_so_far
                           /\ IF NextTarget(cur, solved) > Len(targets)
                              THEN /\ result' = << Failure, n, solved_so_far >>
                                   /\ pc' = "returned"
                                   /\ cur' = cur
                              ELSE /\ cur' = NextTarget(cur, solved)
                                   /\ pc' = "solve"
                                   /\ result' = result
    /\ UNCHANGED experts
    /\ UNCHANGED << discovery_vars, call_vars, fixed_vars >>

----------------------------------------------------------------------------

Next ==
    \/ AskPreference
    \/ AddUp
    \/ TakeTop
    \/ CompareLists
    \/ AskExpertsToSolve
    \/ SolveAttempt

Spec == Init /\ [][Next]_vars

\* search_for_top_preferences on its own: the strategy's call of it, up to
\* its return or its RuntimeError.  The interpreter keeps running the call
\* while it has a step to take.
DiscoveryNext ==
    \/ AskPreference
    \/ AddUp
    \/ TakeTop
    \/ CompareLists

DiscoverySpec == Init /\ [][DiscoveryNext]_vars /\ WF_vars(DiscoveryNext)

\* ask_experts_to_solve on its own: once called, the interpreter keeps
\* running it while it has a step to take.
ResolutionNext ==
    \/ AskExpertsToSolve
    \/ SolveAttempt

\* The runs that call ask_experts_to_solve first thing.
ResolutionInit == Init /\ ~UsesDiscovery(strategy)

ResolutionSpec ==
    ResolutionInit /\ [][ResolutionNext]_vars /\ WF_vars(ResolutionNext)

----------------------------------------------------------------------------
(* Properties. *)

TopSet == DOMAIN top_problems_dict

InDiscovery == pc \in {"ask", "take_top"}

\* search_for_top_preferences has returned to the strategy.
DiscoveryReturned ==
    UsesDiscovery(strategy) /\ pc \in {"call_solve", "solve", "returned", "ValueError"}

IsPrefix(s, t) == Len(s) <= Len(t) /\ \A i \in 1..Len(s) : s[i] = t[i]

NoDuplicates(s) == \A i, j \in 1..Len(s) : s[i] = s[j] => i = j

\* C1: whenever discovery has returned, containment was computed as 100 and
\* every problem of the true top set is in the hypothesized list.
C1_DiscoveryReturnsWithAllTop ==
    DiscoveryReturned =>
        /\ contain_percentage = 100
        /\ TopSet \subseteq Range(hypothesized_top_problems)

\* C1 witness: discovery returned after more than one episode, in a
\* population with more problems than the top set holds.
C1_Witness ==
    /\ DiscoveryReturned
    /\ pc = "call_solve"
    /\ steps > SearchSteps(Max(NumProblems, NumAgents))
    /\ NumProblems > TopCount

\* C3: in every step each agent's revealed preferences keep their entries,
\* with the values they had, and the hypothesized list keeps its elements in
\* place and holds no problem twice.
C3_DiscoveryMonotone ==
    [][ /\ \/ known_preferences' = known_preferences
           \/ \A a \in DOMAIN known_preferences :
                 /\ DOMAIN known_preferences[a] \subseteq DOMAIN known_preferences'[a]
                 /\ \A p \in DOMAIN known_preferences[a] :
                       known_preferences'[a][p] = known_preferences[a][p]
        /\ \/ hypothesized_top_problems' = hypothesized_top_problems
           \/ /\ IsPrefix(hypothesized_top_problems, hypothesized_top_problems')
              /\ NoDuplicates(hypothesized_top_problems')
      ]_vars

\* C3 witness: in a later episode the "take top" loop has taken a problem
\* and the log still holds one that is in the list already; some agent has
\* revealed several preferences.
C3_Witness ==
    /\ pc = "take_top"
    /\ steps > 0
    /\ top_probs_remaining < TopProbsToTake
    /\ \E p \in DOMAIN top_problem_log : p \in Range(hypothesized_top_problems)
    /\ \E a \in DOMAIN known_preferences :
          Cardinality(DOMAIN known_preferences[a]) >= 2

\* C4: after every solve attempt, the attempt counts as a solve exactly when
\* more of the asked agents succeeded than failed, and a top problem's
\* 'solved' flag is set exactly in that case; a tie leaves it unsolved.
C4_SolvedIffStrictMajority ==
    attempts > 0 =>
        /\ (solve_list # "False") <=> (agents_succeeded > agents_failed)
        /\ asked_problem \in TopSet =>
              (top_problems_dict[asked_problem] <=> agents_succeeded > agents_failed)

\* C4 witness: an even cohort split exactly in half, and the top problem it
\* was asked about is still unsolved.
C4_Witness ==
    /\ attempts > 0
    /\ agents_succeeded = agents_failed
    /\ agents_succeeded > 0
    /\ asked_problem \in TopSet
    /\ ~top_problems_dict[asked_problem]
    /\ solve_list = "False"

\* C5: a cutoff above 1 or below 0 ends the call in ValueError before any
\* work: no attempt, no step counted, no flag changed, nothing returned.
C5_BadCutoffDoesNoWork ==
    (expertise_cutoff > DrawMax \/ expertise_cutoff < 0) =>
        /\ pc \in {"call_solve", "ValueError"}
        /\ attempts = 0
        /\ new_steps = 0
        /\ experts = << >>
        /\ result = << >>
        /\ \A p \in TopSet : ~top_problems_dict[p]

\* C5 witness: the call with a cutoff below 0 has ended in ValueError.
C5_Witness == pc = "ValueError" /\ expertise_cutoff < 0

\* C6: as soon as every top problem is marked solved the call has returned,
\* with success unless that attempt went over the budget; and success is
\* returned only with every top problem marked solved.
C6_WinShortCircuit ==
    /\ check_for_win(top_problems_dict) =>
          /\ pc = "returned"
          /\ result = IF new_steps > StepLimit
                      THEN << BudgetExceeded >>
                      ELSE << Success, new_steps, total_problems_solved >>
    /\ (result # << >> /\ result[1] = Success) =>
          \A p \in TopSet : top_problems_dict[p]

\* C6 witness: success was returned with targets left that were never tried.
C6_Witness ==
    /\ pc = "returned"
    /\ result[1] = Success
    /\ cur < Len(targets)
    /\ Len(targets) > TopCount

\* C7: the running total is the starting steps plus one per attempt; once it
\* is over the budget after an attempt the call has returned [-1], whatever
\* that attempt solved; a success or failure result carries a total within
\* the budget.
C7_ResolutionBudget ==
    /\ pc \in {"solve", "returned"} => new_steps = start_steps + attempts
    /\ (attempts > 0 /\ new_steps > StepLimit) =>
          pc = "returned" /\ result = << BudgetExceeded >>
    /\ (result # << >> /\ result[1] \in {Success, Failure}) =>
          /\ result[2] = new_steps
          /\ result[2] <= StepLimit

\* C7 witness: the attempt that went over the budget also solved the last
\* top problem, and the call returned [-1].
C7_Witness ==
    /\ result = << BudgetExceeded >>
    /\ check_for_win(top_problems_dict)
    /\ solve_list = "100"

\* C2: discovery terminates: every run of search_for_top_preferences
\* eventually leaves its episodes.
C2_DiscoveryTerminates == <>(~InDiscovery)

\* The unit operations made so far: the asks of all episodes and the solve
\* attempts.
UnitOperations == steps + ep_steps + attempts

\* C8: the unit operations of a run never number more than the budget plus
\* one, and the run has been aborted once they are over the budget.
C8_GlobalStepBudget ==
    /\ UnitOperations <= StepLimit + 1
    /\ UnitOperations > StepLimit =>
          \/ pc = "RuntimeError"
          \/ pc = "returned" /\ result = << BudgetExceeded >>

\* C9: when an episode's step count is over the budget, the strategy call
\* has returned the sentinel [-1].
C9_EpisodeOverBudgetReturnsSentinel ==
    OverBudget(ep_steps) =>
        pc = "returned" /\ result = << BudgetExceeded >>

\* C11: in a run of paradox_solve or direct_dem_solve, the total_steps of a
\* success or failure result is the number of discovery asks of the run plus
\* the number of solve attempts of the run.
C11_TotalStepsCountAsksAndAttempts ==
    (UsesDiscovery(strategy) /\ result # << >> /\ result[1] \in {Success, Failure}) =>
        result[2] = steps + attempts

\* C12: the first discovery episode of a run makes exactly max(P, A) asks.
C12_FirstEpisodeSize ==
    (UsesDiscovery(strategy) /\ pc = "take_top" /\ steps = 0) =>
        ep_steps = Max(NumProblems, NumAgents)

\* The log a fresh resum of known_preferences gives: for every problem some
\* agent has revealed, the sum of its revealed values.
FreshLog(known) == [p \in Revealed(known) |-> RevealedTotal(known, p)]

\* C15: at the moment the extraction of an episode starts, the top problem
\* log is the fresh resum of the revealed preferences, with nothing left
\* over from earlier episodes.
C15_LogIsFreshResum ==
    (pc = "take_top" /\ top_probs_remaining = TopProbsToTake) =>
        top_problem_log = FreshLog(known_preferences)

\* An episode's asks are over and the next step is the add-up.
AsksOver == pc = "ask" /\ ~(ep_steps < number_of_steps)

\* The episode has ended and its containment is below 100: the next step is
\* the recursive call.
EpisodeFailed ==
    /\ pc = "take_top"
    /\ ~TakingTop(top_probs_remaining, top_problem_log)
    /\ list1_contain_list2(hypothesized_top_problems, TopSet) < 100

\* What C13 says of every size but the strictness: an episode makes as many
\* asks as its size, and after a failed episode of s asks the next size is
\* floor(s / 2) + 1, with the known preferences, the list and the summed
\* steps carried over.
EpisodeSchedule ==
    /\ AsksOver => ep_steps = number_of_steps
    /\ EpisodeFailed =>
          /\ pc' = "ask"
          /\ number_of_steps' = (ep_steps \div 2) + 1
          /\ known_preferences' = known_preferences
          /\ hypothesized_top_problems' = hypothesized_top_problems
          /\ (steps + ep_steps <= StepLimit => steps' = steps + ep_steps)
          /\ steps' >= steps

\* C13 as stated: the schedule, and the next episode is strictly smaller
\* than the one just finished.
C13_EpisodesStrictlyShrink ==
    [][ /\ EpisodeSchedule
        /\ EpisodeFailed => number_of_steps' < ep_steps ]_vars

\* C13 amended: the schedule, and the next episode is strictly smaller than
\* an episode of three asks or more, and of the same size after an episode
\* of one or two asks; it is never larger.
C13_EpisodesShrinkDownToTwo ==
    [][ /\ EpisodeSchedule
        /\ EpisodeFailed =>
              /\ number_of_steps' <= ep_steps
              /\ (ep_steps >= 3 => number_of_steps' < ep_steps)
              /\ (ep_steps <= 2 => number_of_steps' = ep_steps) ]_vars

\* C13 witness: a later episode of two asks has failed; the next one is of
\* two asks again.
C13_Witness ==
    /\ EpisodeFailed
    /\ steps > 0
    /\ ep_steps = 2

\* The next step is an ask of paradox_ask_preferences.
Asking == pc = "ask" /\ ep_steps < number_of_steps

\* What an ask to 'agent' may change of what is known of it: nothing when
\* nothing is left to reveal, else one new entry, a largest of the
\* unrevealed preferences, with the entries revealed before left as they were.
RevealsLargest(agent, before, after) ==
    LET unknown == Problems \ DOMAIN before
    IN  IF unknown = {} THEN after = before
        ELSE \E p \in unknown :
                /\ DOMAIN after = DOMAIN before \cup {p}
                /\ after[p] = Preference(agent, p)
                /\ \A q \in unknown : Preference(agent, q) <= after[p]
                /\ \A q \in DOMAIN before : after[q] = before[q]

\* What is revealed of an agent is at least as large as what is not.
RevealedAboveUnrevealed(known) ==
    \A a \in DOMAIN known :
        \A p \in DOMAIN known[a] :
            \A q \in Problems \ DOMAIN known[a] : known[a][p] >= Preference(a, q)

\* C14: the i-th ask of an episode goes to agent ((i-1) mod A) + 1, costs one
\* step and reveals the asked agent's largest unrevealed preference, so the
\* agent's revealed entries number one more, up to P; an ask to an agent
\* with nothing left changes only the step count and the agent to ask next;
\* nobody else's entries change, in an ask or in any other step; and every
\* revealed value is at least every unrevealed value of the same agent.
C14_AskRevealsLargestRoundRobin ==
    [][ /\ Asking =>
              /\ agentid = (ep_steps % NumAgents) + 1
              /\ ep_steps' = ep_steps + 1
              /\ RevealsLargest(agentid, known_preferences[agentid],
                                known_preferences'[agentid])
              /\ Cardinality(DOMAIN known_preferences'[agentid]) =
                    IF Cardinality(DOMAIN known_preferences[agentid]) < NumProblems
                    THEN Cardinality(DOMAIN known_preferences[agentid]) + 1
                    ELSE NumProblems
              /\ \A a \in Agents \ {agentid} :
                    known_preferences'[a] = known_preferences[a]
              /\ UNCHANGED << top_problem_log, hypothesized_top_problems,
                              steps, number_of_steps >>
        /\ ~Asking => known_preferences' = known_preferences
        /\ \/ known_preferences' = known_preferences
           \/ RevealedAboveUnrevealed(known_preferences')
      ]_vars

\* C14 witness: an episode's first ask went to agent 1 long after agent 1
\* had revealed its preference for every problem.
C14_Witness ==
    /\ pc = "ask"
    /\ ep_steps = 1
    /\ agentid = 2
    /\ steps >= StepLimit
    /\ DOMAIN known_preferences[1] = Problems

\* The entries the extraction of the running episode has removed so far.
SlotsUsed == TopProbsToTake - top_probs_remaining

\* C16: while slots and entries are left the extraction removes one entry
\* per turn, one with the largest total, and appends it to the list iff it
\* is not in it; it ends with 10 + floor(0.1 x P) entries removed or with
\* the log empty, and not before; the list holds only problems some agent
\* has revealed.
C16_ExtractionTakesLargest ==
    [][ /\ (pc = "take_top" /\ top_probs_remaining > 0 /\ DOMAIN top_problem_log # {}) =>
              \E top_prob \in DOMAIN top_problem_log :
                 /\ \A q \in DOMAIN top_problem_log :
                       top_problem_log[q] <= top_problem_log[top_prob]
                 /\ DOMAIN top_problem_log' = DOMAIN top_problem_log \ {top_prob}
                 /\ \A q \in DOMAIN top_problem_log' :
                       top_problem_log'[q] = top_problem_log[q]
                 /\ top_probs_remaining' = top_probs_remaining - 1
                 /\ hypothesized_top_problems' =
                       IF top_prob \in Range(hypothesized_top_problems)
                       THEN hypothesized_top_problems
                       ELSE Append(hypothesized_top_problems, top_prob)
        /\ (pc = "take_top" /\ pc' # "take_top") =>
              /\ SlotsUsed = TopProbsToTake \/ DOMAIN top_problem_log = {}
              /\ UNCHANGED << top_problem_log, hypothesized_top_problems >>
        /\ pc' = "take_top" =>
              /\ SlotsUsed' \in 0..TopProbsToTake
              /\ Len(hypothesized_top_problems') - Len(hypothesized_top_problems)
                    \in {0, 1}
        /\ pc # "take_top" =>
              hypothesized_top_problems' = hypothesized_top_problems
        /\ Range(hypothesized_top_problems') \subseteq Revealed(known_preferences')
      ]_vars

\* C16 witness: in a later episode the extraction has used every slot and
\* an entry is left in the log; a problem it removed was in the list already.
C16_Witness ==
    /\ pc = "take_top"
    /\ steps > 0
    /\ top_probs_remaining = 0
    /\ DOMAIN top_problem_log # {}
    /\ Len(hypothesized_top_problems) < NumProblems

\* The cohort C17 describes for a problem: the agents at or above the
\* cutoff, the whole population when there is none.
Cohort(p) ==
    LET at_or_above == { a \in Agents : Expertise(a, p) >= expertise_cutoff }
    IN  IF at_or_above # {} THEN at_or_above ELSE Agents

\* C17: every solve attempt asks the cohort of its problem: the agents whose
\* expertise for it is at or above the cutoff, or everybody when nobody is;
\* with cutoff 0 that is the whole population.
C17_CohortSelection ==
    attempts > 0 =>
        /\ agents_to_ask = Cohort(asked_problem)
        /\ agents_succeeded + agents_failed = Cardinality(Cohort(asked_problem))
        /\ expertise_cutoff = 0 => agents_to_ask = Agents

\* C17 witness: an attempt asked just the agents that sit exactly at the
\* cutoff, fewer than the whole population.
C17_Witness ==
    /\ attempts > 0
    /\ agents_to_ask # Agents
    /\ \A a \in agents_to_ask : Expertise(a, asked_problem) = expertise_cutoff

\* The most attempts C18 allows a call: max(1, 100 x P - starting_steps + 1).
MostAttempts == Max(1, NumProblems * StepFactor - start_steps + 1)

\* ask_experts_to_solve has returned one of its three outcomes.
Returned ==
    /\ pc = "returned"
    /\ result # << >>
    /\ result[1] \in {Success, Failure, BudgetExceeded}

\* C18: a call of ask_experts_to_solve with a valid cutoff never makes more
\* than max(1, 100 x P - starting_steps + 1) solve attempts, and it
\* eventually returns success, failure or budget-exceeded.
C18_ResolutionTerminates ==
    /\ [](attempts <= MostAttempts)
    /\ (pc = "call_solve" /\ expertise_cutoff \in 0..DrawMax) ~> Returned

\* C18 witness: a cohort that never reached a majority was cut off by the
\* budget, at the last attempt the bound allows.
C18_Witness ==
    /\ Returned
    /\ result = << BudgetExceeded >>
    /\ start_steps = 0
    /\ attempts = MostAttempts
    /\ total_problems_solved = 0
    /\ \A p \in TopSet : ~top_problems_dict[p]

\* C19: every attempt is on the target at the current position of the list;
\* the position moves on, by one, exactly after an attempt that reached a
\* majority, so the targets before it have each had their successful
\* attempt and get no other; a failure is returned only after the last
\* target's successful attempt; and a success or failure result counts the
\* targets that had a successful attempt, the last one included.
C19_TargetsInListOrder ==
    [][ pc = "solve" =>
          LET success == agents_succeeded' > agents_failed'
          IN  /\ attempts' = attempts + 1
              /\ asked_problem' = targets[cur]
              /\ total_problems_solved = cur - 1
              /\ pc' = "solve" => cur' = IF success THEN cur + 1 ELSE cur
              /\ pc' = "returned" =>
                    /\ cur' = cur
                    /\ result'[1] = Failure => success /\ cur = Len(targets)
                    /\ result'[1] \in {Success, Failure} =>
                          success /\ result'[3] = cur
      ]_vars

\* C19 witness: the call is at a later target, which has had failed
\* attempts only, after the targets before it were solved in order.
C19_Witness ==
    /\ pc = "solve"
    /\ cur > 2
    /\ asked_problem = targets[cur]
    /\ agents_succeeded <= agents_failed
    /\ total_problems_solved = cur - 1

\* C20: a call whose target list holds every top problem never returns the
\* failure outcome: it ends in success or in budget-exceeded; failure is
\* returned only by a call whose list misses a top problem.
C20_NoFailureWithAllTopTargeted ==
    /\ (TopSet \subseteq Range(targets) /\ result # << >>) =>
          result[1] \in {Success, BudgetExceeded}
    /\ (result # << >> /\ result[1] = Failure) =>
          TopSet \ Range(targets) # {}

\* C20 witness: with every top problem in the list, the last target's
\* successful attempt ended the call in success, not in failure.
C20_Witness ==
    /\ pc = "returned"
    /\ TopSet \subseteq Range(targets)
    /\ cur = Len(targets)
    /\ result[1] = Success

============================================================================
